---- MODULE Spec2Model ----
(***************************************************************************)
(* SC2K-style terrain renderer: the biome lookup table of TerrainZone.js,  *)
(* the field generator of TerrainGenerator.js and the shape classification *)
(* of TerrainMeshBuilder.js.                                               *)
(*                                                                         *)
(* Conventions.  JavaScript arrays are 0-based; a JavaScript array is a    *)
(* sequence here and At(arr, i) reads its 0-based index i.  Heights that   *)
(* build() handles are kept in HALF tiers (twice the JavaScript value) and *)
(* before the division by Math.SQRT2, so that the 0.5 lift of a slope is   *)
(* the integer 1.  The Perlin noise is an unknown function: the raw        *)
(* elevation of each cell is any integer of RawElevs, and the moisture     *)
(* noise of a run is any value k / NoiseDen with k in MoistNoises.  The     *)
(* generator is constructed with a width and an amplitude; the raw         *)
(* elevations of a run are the integers that Math.trunc(Math.floor(        *)
(* amplitude / 2) * rawY) takes for rawY in [-1, 1].                       *)
(***************************************************************************)
EXTENDS Integers, Sequences, FiniteSets, TLC

(* ---------------------------- bounds ----------------------------------- *)
\* The runs explored: the number of cells plus floor(amplitude / 2), the
\* highest raw elevation, is at most MaxSize.
MaxSize == 10
NoiseDen == 3
\* build() is called at most this many times on one terrain
MaxBuilds == 2
\* The application is created for the widths 1..MaxAppWidth and for WIDTH
MaxAppWidth == 3
\* A generator is constructed with the widths -MaxNegWidth..0
MaxNegWidth == 2

Configs ==
  {c \in (1..MaxSize) \X {2 * h : h \in 1..MaxSize} : c[1] * c[1] + (c[2] \div 2) <= MaxSize}
MoistNoises == {-NoiseDen, NoiseDen}

(* ------------------------- program constants --------------------------- *)
DEFAULT_WIDTH == 64
DEFAULT_AMPLITUDE == 15
\* Number.MAX_SAFE_INTEGER and Number.MIN_SAFE_INTEGER: beyond every elevation
MAX_SAFE_INTEGER == 2147483647
MIN_SAFE_INTEGER == -2147483647

CELL_SHAPE_FLAT == 0
CELL_SHAPE_SLOPE == 1
CELL_SHAPE_CORNER_UP == 2
CELL_SHAPE_CORNER_DOWN == 3

\* undefined, as a value that compares with the zone records
Undefined == [undefined |-> TRUE]

(* ------------------------- TerrainZone.js ------------------------------ *)
\* The declarations with the range of TUNDRA reaching into that of SNOW.
TerrainZonesTundraWide ==
  << [key |-> "SNOW",                     moistureMin |-> 3, moistureMax |-> 5, elevation |-> 3, color |-> 16316664],
     [key |-> "TUNDRA",                   moistureMin |-> 2, moistureMax |-> 3, elevation |-> 3, color |-> 14540219],
     [key |-> "BARE",                     moistureMin |-> 1, moistureMax |-> 1, elevation |-> 3, color |-> 12303291],
     [key |-> "SCORCHED",                 moistureMin |-> 0, moistureMax |-> 0, elevation |-> 3, color |-> 10066329],
     [key |-> "TAIGA",                    moistureMin |-> 4, moistureMax |-> 5, elevation |-> 2, color |-> 13423803],
     [key |-> "SHRUBLAND",                moistureMin |-> 2, moistureMax |-> 3, elevation |-> 2, color |-> 12897467],
     [key |-> "DESERT_TEMPERATE",         moistureMin |-> 0, moistureMax |-> 1, elevation |-> 2, color |-> 15001802],
     [key |-> "RAINFOREST_TEMPERATE",     moistureMin |-> 5, moistureMax |-> 5, elevation |-> 1, color |-> 10798248],
     [key |-> "FOREST_DECIDUOUS",         moistureMin |-> 3, moistureMax |-> 4, elevation |-> 1, color |-> 11848105],
     [key |-> "GRASSLAND",                moistureMin |-> 1, moistureMax |-> 2, elevation |-> 1, color |-> 12899498],
     [key |-> "DESERT_TEMPERATE_LOW",     moistureMin |-> 0, moistureMax |-> 0, elevation |-> 1, color |-> 15001802],
     [key |-> "RAINFOREST_TROPICAL",      moistureMin |-> 4, moistureMax |-> 5, elevation |-> 0, color |-> 10271657],
     [key |-> "FOREST_TROPICAL_SEASONAL", moistureMin |-> 2, moistureMax |-> 3, elevation |-> 0, color |-> 11127972],
     [key |-> "GRASSLAND_LOW",            moistureMin |-> 1, moistureMax |-> 1, elevation |-> 0, color |-> 12899498],
     [key |-> "DESERT_SUBTROPICAL",       moistureMin |-> 0, moistureMax |-> 0, elevation |-> 0, color |-> 15326663] >>

\* The zone declarations, in the order in which for..in visits the keys.
TerrainZones ==
  << [key |-> "SNOW",                     moistureMin |-> 3, moistureMax |-> 5, elevation |-> 3, color |-> 16316664],
     [key |-> "TUNDRA",                   moistureMin |-> 2, moistureMax |-> 2, elevation |-> 3, color |-> 14540219],
     [key |-> "BARE",                     moistureMin |-> 1, moistureMax |-> 1, elevation |-> 3, color |-> 12303291],
     [key |-> "SCORCHED",                 moistureMin |-> 0, moistureMax |-> 0, elevation |-> 3, color |-> 10066329],
     [key |-> "TAIGA",                    moistureMin |-> 4, moistureMax |-> 5, elevation |-> 2, color |-> 13423803],
     [key |-> "SHRUBLAND",                moistureMin |-> 2, moistureMax |-> 3, elevation |-> 2, color |-> 12897467],
     [key |-> "DESERT_TEMPERATE",         moistureMin |-> 0, moistureMax |-> 1, elevation |-> 2, color |-> 15001802],
     [key |-> "RAINFOREST_TEMPERATE",     moistureMin |-> 5, moistureMax |-> 5, elevation |-> 1, color |-> 10798248],
     [key |-> "FOREST_DECIDUOUS",         moistureMin |-> 3, moistureMax |-> 4, elevation |-> 1, color |-> 11848105],
     [key |-> "GRASSLAND",                moistureMin |-> 1, moistureMax |-> 2, elevation |-> 1, color |-> 12899498],
     [key |-> "DESERT_TEMPERATE_LOW",     moistureMin |-> 0, moistureMax |-> 0, elevation |-> 1, color |-> 15001802],
     [key |-> "RAINFOREST_TROPICAL",      moistureMin |-> 4, moistureMax |-> 5, elevation |-> 0, color |-> 10271657],
     [key |-> "FOREST_TROPICAL_SEASONAL", moistureMin |-> 2, moistureMax |-> 3, elevation |-> 0, color |-> 11127972],
     [key |-> "GRASSLAND_LOW",            moistureMin |-> 1, moistureMax |-> 1, elevation |-> 0, color |-> 12899498],
     [key |-> "DESERT_SUBTROPICAL",       moistureMin |-> 0, moistureMax |-> 0, elevation |-> 0, color |-> 15326663] >>

Tiers == 0..3
MoistureLevels == 0..5

\* Array(6): a fresh array object whose six slots are empty.
EmptyRow == [m \in MoistureLevels |-> Undefined]

\* Array(4).fill(Array(6)): Array(6) is evaluated once, so the four slots of
\* the outer array all refer to the one row object, number 0 of the heap.
FilledTable == [t \in Tiers |-> 0]
FilledHeap == [r \in {0} |-> EmptyRow]

\* The inner for loop of one key: terrainByElevAndMoisture[tz.elevation][i] = tz
\* for i from moistureMin to moistureMax, written through the row reference.
StoreZone(table, heap, tz) ==
  [heap EXCEPT ![table[tz.elevation]] =
     [m \in MoistureLevels |->
        IF tz.moistureMin <= m /\ m <= tz.moistureMax THEN tz ELSE @[m]]]

(* ----------------------- TerrainGenerator.js --------------------------- *)
At(arr, ix) == arr[ix + 1]

\* Math.min(...list) and Math.max(...list) of a non-empty list
RECURSIVE MathMin(_)
MathMin(list) ==
  IF Len(list) = 1 THEN list[1]
  ELSE LET rest == MathMin(Tail(list))
       IN IF list[1] < rest THEN list[1] ELSE rest

RECURSIVE MathMax(_)
MathMax(list) ==
  IF Len(list) = 1 THEN list[1]
  ELSE LET rest == MathMax(Tail(list))
       IN IF list[1] > rest THEN list[1] ELSE rest

\* The floored modulo, whose result is never negative.
FlooredMod(a, n) == a % n

\* a % n of JavaScript: the sign of the result is the sign of a
JSRem(a, n) ==
  LET m == IF n < 0 THEN 0 - n ELSE n
  IN IF a >= 0 THEN a % m ELSE 0 - ((0 - a) % m)

\* Math.trunc(a / n): the quotient rounded towards zero
MathTruncDiv(a, n) ==
  LET q == (IF a < 0 THEN 0 - a ELSE a) \div (IF n < 0 THEN 0 - n ELSE n)
  IN IF (a < 0) = (n < 0) THEN q ELSE 0 - q

\* The constructor with the default width for every width that is not
\* positive.
NewTerrainGeneratorPositive(width, amplitude) ==
  LET w == IF width > 0 THEN width ELSE DEFAULT_WIDTH
  IN [width |-> w, area |-> w * w,
      amplitude |-> IF amplitude # 0 THEN amplitude ELSE DEFAULT_AMPLITUDE]

\* new TerrainGenerator(width, amplitude, resolution); a missing argument is 0
NewTerrainGenerator(width, amplitude) ==
  LET w == IF width # 0 THEN width ELSE DEFAULT_WIDTH
  IN [width |-> w, area |-> w * w,
      amplitude |-> IF amplitude # 0 THEN amplitude ELSE DEFAULT_AMPLITUDE]

\* The values of Math.trunc(Math.floor(amplitude / 2) * rawY), rawY in [-1, 1]
RawElevs(amplitude) == (0 - (amplitude \div 2))..(amplitude \div 2)

\* Neighbors without the up/right neighbour.
NeighborsNoUpRight(cells, width, ix) ==
  LET x == JSRem(ix, width)
      z == MathTruncDiv(ix, width)
  IN (IF x > 0
        THEN <<At(cells, ix - 1).elevation>>
             \o (IF z > 0 THEN <<At(cells, ix - (width + 1)).elevation>> ELSE <<>>)
        ELSE <<>>)
     \o
     (IF z > 0 THEN <<At(cells, ix - width).elevation>> ELSE <<>>)

\* The elevations of the neighbours already in cellInfo, in push order:
\* left, up/left, up, up/right.
Neighbors(cells, width, ix) ==
  LET x == JSRem(ix, width)
      z == MathTruncDiv(ix, width)
  IN (IF x > 0
        THEN <<At(cells, ix - 1).elevation>>
             \o (IF z > 0 THEN <<At(cells, ix - (width + 1)).elevation>> ELSE <<>>)
        ELSE <<>>)
     \o
     (IF z > 0
        THEN <<At(cells, ix - width).elevation>>
             \o (IF x < width - 1 THEN <<At(cells, (ix - width) + 1).elevation>> ELSE <<>>)
        ELSE <<>>)

NeighborRange(neighbors) == <<MathMin(neighbors), MathMax(neighbors)>>

\* Smooth without its second assignment: the value is capped from above only.
SmoothUpperOnly(y, neighborRange) ==
  IF y < neighborRange[1] + 1 THEN y ELSE neighborRange[1] + 1

\* Smooth without its first assignment: the value is capped from below only.
SmoothLowerOnly(y, neighborRange) ==
  IF y > neighborRange[2] - 1 THEN y ELSE neighborRange[2] - 1

\* The caps the other way round: raised to the lowest neighbour plus one,
\* then lowered to the highest neighbour minus one.
SmoothRaiseThenLower(y, neighborRange) ==
  LET y1 == IF y < neighborRange[1] + 1 THEN neighborRange[1] + 1 ELSE y
  IN IF y1 > neighborRange[2] - 1 THEN neighborRange[2] - 1 ELSE y1

\* The two assignments that cap y against neighborRange.
Smooth(y, neighborRange) ==
  LET y1 == IF y < neighborRange[1] + 1 THEN y ELSE neighborRange[1] + 1
  IN IF y1 > neighborRange[2] - 1 THEN y1 ELSE neighborRange[2] - 1

\* The moisture without the cap.
MoistureUncapped(k) == (6 * (k + NoiseDen)) \div (2 * NoiseDen)

\* Math.trunc(6 * (noise + 1) / 2), capped at 5, for noise = k / NoiseDen
Moisture(k) ==
  LET m == (6 * (k + NoiseDen)) \div (2 * NoiseDen)
  IN IF m <= 5 THEN m ELSE 5

\* elevRange after a cell of elevation y: the maximum kept in the first slot.
TrackRangeOneSlot(range, y) ==
  <<IF y < range[1] THEN y ELSE range[1],
    IF y > range[1] THEN y ELSE range[2]>>

\* elevRange after a cell of elevation y
TrackRange(range, y) ==
  <<IF y < range[1] THEN y ELSE range[1],
    IF y > range[2] THEN y ELSE range[2]>>

\* The locals of generate() when the loop is entered
GenerateEntry ==
  [cellInfo |-> <<>>, elevRange |-> <<MAX_SAFE_INTEGER, MIN_SAFE_INTEGER>>,
   thrown |-> FALSE]

\* One pass of the loop body of generate() for the cell after those of
\* st.cellInfo; raw is the truncated elevation noise, noise the numerator of
\* the moisture noise.  thrown tells that the pass threw the range error.
GenerateStep(st, width, raw, noise) ==
  LET ix == Len(st.cellInfo)
      x == JSRem(ix, width)
      z == MathTruncDiv(ix, width)
      neighbors == Neighbors(st.cellInfo, width, ix)
      neighborRange == NeighborRange(neighbors)
  IN IF Len(neighbors) > 0 /\ neighborRange[2] - neighborRange[1] > 2
       THEN [st EXCEPT !.thrown = TRUE]
       ELSE LET y == IF Len(neighbors) > 0 THEN Smooth(raw, neighborRange) ELSE raw
            IN [cellInfo |-> Append(st.cellInfo,
                               [elevation |-> y, moisture |-> Moisture(noise),
                                xIndex |-> x, zIndex |-> z,
                                shape |-> 0, facing |-> 0]),
                elevRange |-> TrackRange(st.elevRange, y),
                thrown |-> FALSE]

\* n passes of the loop with the same noise values, stopping at a throw:
\* the first half of the passes, then the others on what these have left
RECURSIVE GenerateSteps(_, _, _, _, _)
GenerateSteps(st, width, raw, noise, n) ==
  IF n = 0 \/ st.thrown THEN st
  ELSE IF n = 1 THEN GenerateStep(st, width, raw, noise)
  ELSE CHOOSE out \in {GenerateSteps(mid, width, raw, noise, n - (n \div 2)) :
                         mid \in {GenerateSteps(st, width, raw, noise, n \div 2)}} : TRUE

(* ---------------------- TerrainMeshBuilder.js -------------------------- *)
\* list.map((cur, curIx) => cur > yE ? curIx : undefined)
\*     .filter((cur) => !isNaN(cur)): the 0-based indices of the higher ones
HigherIx(list, yE) == SelectSeq(<<0, 1, 2, 3>>, LAMBDA curIx : list[curIx + 1] > yE)

\* arr.includes(v)
Includes(arr, v) == \E k \in 1..Len(arr) : arr[k] = v

\* The elevations read, the upper right one without the test of the column.
ReadHeightsWrapB(cells, width, ix) ==
  LET z == ix \div width
      x == ix % width
      yE == At(cells, ix).elevation
  IN [yE |-> yE,
      yA |-> IF x > 0 /\ z > 0 THEN At(cells, ix - width - 1).elevation ELSE yE,
      yTop |-> IF z > 0 THEN At(cells, ix - width).elevation ELSE yE,
      yB |-> IF z > 0 THEN At(cells, ix - width + 1).elevation ELSE yE,
      yRight |-> IF x < (width - 1) THEN At(cells, ix + 1).elevation ELSE yE,
      yC |-> IF x < (width - 1) /\ z < (width - 1)
               THEN At(cells, ix + width + 1).elevation ELSE yE,
      yBot |-> IF z < (width - 1) THEN At(cells, ix + width).elevation ELSE yE,
      yD |-> IF x > 0 /\ z < (width - 1) THEN At(cells, ix + width - 1).elevation ELSE yE,
      yLeft |-> IF x > 0 THEN At(cells, ix - 1).elevation ELSE yE]

\* The elevations build() reads around cell ix: the centre, the four corner
\* neighbours A (upper left), B (upper right), C (bottom right), D (bottom
\* left) and the four side neighbours.
ReadHeights(cells, width, ix) ==
  LET z == ix \div width
      x == ix % width
      yE == At(cells, ix).elevation
  IN [yE |-> yE,
      yA |-> IF x > 0 /\ z > 0 THEN At(cells, ix - width - 1).elevation ELSE yE,
      yTop |-> IF z > 0 THEN At(cells, ix - width).elevation ELSE yE,
      yB |-> IF x < (width - 1) /\ z > 0 THEN At(cells, ix - width + 1).elevation ELSE yE,
      yRight |-> IF x < (width - 1) THEN At(cells, ix + 1).elevation ELSE yE,
      yC |-> IF x < (width - 1) /\ z < (width - 1)
               THEN At(cells, ix + width + 1).elevation ELSE yE,
      yBot |-> IF z < (width - 1) THEN At(cells, ix + width).elevation ELSE yE,
      yD |-> IF x > 0 /\ z < (width - 1) THEN At(cells, ix + width - 1).elevation ELSE yE,
      yLeft |-> IF x > 0 THEN At(cells, ix - 1).elevation ELSE yE]

HigherCorners(h) == HigherIx(<<h.yA, h.yB, h.yC, h.yD>>, h.yE)
HigherSides(h) == HigherIx(<<h.yLeft, h.yTop, h.yRight, h.yBot>>, h.yE)

\* ShapeNoSide whose flat branch leaves the corners at the heights read
\* from the corner neighbours.
ShapeNoSideKeepCorners(h, higherCorners) ==
  IF Len(higherCorners) = 1
    THEN [cellShape |-> CELL_SHAPE_CORNER_UP,
          cellTurns |-> JSRem(higherCorners[1] * (0 - 1), 4),
          yA |-> 2 * (IF Includes(higherCorners, 0) THEN h.yA ELSE h.yE),
          yB |-> 2 * (IF Includes(higherCorners, 1) THEN h.yB ELSE h.yE),
          yC |-> 2 * (IF Includes(higherCorners, 2) THEN h.yC ELSE h.yE),
          yD |-> 2 * (IF Includes(higherCorners, 3) THEN h.yD ELSE h.yE),
          yE |-> 2 * h.yE,
          uvOffset |-> <<2, 2>>]
    ELSE [cellShape |-> CELL_SHAPE_FLAT,
          cellTurns |-> 0,
          yA |-> 2 * h.yA, yB |-> 2 * h.yB, yC |-> 2 * h.yC, yD |-> 2 * h.yD,
          yE |-> 2 * h.yE,
          uvOffset |-> <<0, 0>>]

\* The branch higherSides.length == 0.  Heights leave in half tiers.
ShapeNoSide(h, higherCorners) ==
  IF Len(higherCorners) = 1
    THEN [cellShape |-> CELL_SHAPE_CORNER_UP,
          cellTurns |-> JSRem(higherCorners[1] * (0 - 1), 4),
          yA |-> 2 * (IF Includes(higherCorners, 0) THEN h.yA ELSE h.yE),
          yB |-> 2 * (IF Includes(higherCorners, 1) THEN h.yB ELSE h.yE),
          yC |-> 2 * (IF Includes(higherCorners, 2) THEN h.yC ELSE h.yE),
          yD |-> 2 * (IF Includes(higherCorners, 3) THEN h.yD ELSE h.yE),
          yE |-> 2 * h.yE,
          uvOffset |-> <<2, 2>>]
    ELSE [cellShape |-> CELL_SHAPE_FLAT,
          cellTurns |-> 0,
          yA |-> 2 * h.yE, yB |-> 2 * h.yE, yC |-> 2 * h.yE, yD |-> 2 * h.yE,
          yE |-> 2 * h.yE,
          uvOffset |-> <<0, 0>>]

\* The quarter turns of the formula (higherSides[0] - 1) % 4
SlopeTurnsByFormula == <<0 - 1, 0, 1, 2>>

\* The quarter turns of a slope, indexed by the higher side
SlopeTurns == <<1, 0, 3, 2>>

\* The branch higherSides.length == 1
ShapeOneSide(h, higherSides) ==
  LET side == higherSides[1]
  IN [cellShape |-> CELL_SHAPE_SLOPE,
      cellTurns |-> SlopeTurns[side + 1],
      yA |-> 2 * (IF side = 0 THEN h.yLeft ELSE IF side = 1 THEN h.yTop ELSE h.yA),
      yB |-> 2 * (IF side = 1 THEN h.yTop ELSE IF side = 2 THEN h.yRight ELSE h.yB),
      yC |-> 2 * (IF side = 2 THEN h.yRight ELSE IF side = 3 THEN h.yBot ELSE h.yC),
      yD |-> 2 * (IF side = 0 THEN h.yLeft ELSE IF side = 3 THEN h.yBot ELSE h.yD),
      yE |-> 2 * h.yE + 1,
      uvOffset |-> <<0, 2>>]

\* CornerDownTurns whose last test leaves out the conditions on sides 1 and 2.
CornerDownTurnsNoTest(higherSides) ==
  IF ~Includes(higherSides, 0)
    THEN (IF ~Includes(higherSides, 1) THEN 2 ELSE 0 - 1)
    ELSE 1

\* cellTurns of the branch higherSides.length == 2
CornerDownTurns(higherSides) ==
  IF ~Includes(higherSides, 0)
    THEN (IF ~Includes(higherSides, 1) THEN 2 ELSE 0 - 1)
    ELSE (IF ~Includes(higherSides, 1) /\ ~Includes(higherSides, 2) THEN 1 ELSE 0)

\* The branch higherSides.length == 2: the four ifs run in order, each
\* overwriting two corners and the centre with highSide.
ShapeTwoSides(h, higherSides) ==
  LET highSide == MathMax(<<h.yLeft, h.yTop, h.yRight, h.yBot>>)
      s0 == [yA |-> h.yA, yB |-> h.yB, yC |-> h.yC, yD |-> h.yD, yE |-> h.yE]
      s1 == IF Includes(higherSides, 0)
              THEN [s0 EXCEPT !.yD = highSide, !.yA = highSide, !.yE = highSide] ELSE s0
      s2 == IF Includes(higherSides, 1)
              THEN [s1 EXCEPT !.yA = highSide, !.yB = highSide, !.yE = highSide] ELSE s1
      s3 == IF Includes(higherSides, 2)
              THEN [s2 EXCEPT !.yB = highSide, !.yC = highSide, !.yE = highSide] ELSE s2
      s4 == IF Includes(higherSides, 3)
              THEN [s3 EXCEPT !.yD = highSide, !.yC = highSide, !.yE = highSide] ELSE s3
  IN [cellShape |-> CELL_SHAPE_CORNER_DOWN,
      cellTurns |-> CornerDownTurns(higherSides),
      yA |-> 2 * s4.yA, yB |-> 2 * s4.yB, yC |-> 2 * s4.yC, yD |-> 2 * s4.yD,
      yE |-> 2 * s4.yE,
      uvOffset |-> <<2, 0>>]

\* No branch is taken (three or four higher sides): the initial values stay.
ShapeUnclassified(h) ==
  [cellShape |-> CELL_SHAPE_FLAT,
   cellTurns |-> 0,
   yA |-> 2 * h.yA, yB |-> 2 * h.yB, yC |-> 2 * h.yC, yD |-> 2 * h.yD,
   yE |-> 2 * h.yE,
   uvOffset |-> <<0, 2>>]

\* Shape, quarter turns, the five heights (half tiers, before the division
\* by Math.SQRT2) and the atlas offset (quarters) of cell ix.
Classify(cells, width, ix) ==
  LET h == ReadHeights(cells, width, ix)
      higherCorners == HigherCorners(h)
      higherSides == HigherSides(h)
  IN IF Len(higherSides) = 0 THEN ShapeNoSide(h, higherCorners)
     ELSE IF Len(higherSides) = 1 THEN ShapeOneSide(h, higherSides)
     ELSE IF Len(higherSides) = 2 THEN ShapeTwoSides(h, higherSides)
     ELSE ShapeUnclassified(h)

\* A JavaScript number that is an integer, NaN or -Infinity
Num(n) == [num |-> n]
NaN == [nan |-> TRUE]
NegInfinity == [infinity |-> -1]

\* Math.min(3, Math.round((elevation - minElev) / (maxElev - minElev) * 4))
ElevationTier(elevation, minElev, maxElev) ==
  LET d == elevation - minElev
      r == maxElev - minElev
  IN IF r = 0
       THEN (IF d = 0 THEN NaN ELSE IF d > 0 THEN Num(3) ELSE NegInfinity)
       ELSE LET rounded == IF r > 0 THEN (8 * d + r) \div (2 * r)
                                    ELSE (0 - (8 * d + r)) \div (0 - (2 * r))
            IN IF rounded < 3 THEN Num(rounded) ELSE Num(3)

\* getTerrainZone(elevation, moisture): terrainByElevAndMoisture[elevation][moisture];
\* reading an index of an undefined row is a TypeError
TypeError == [throws |-> "TypeError"]
getTerrainZone(table, rows, elevation, moisture) ==
  IF elevation \notin {Num(t) : t \in DOMAIN table} THEN TypeError
  ELSE IF moisture \notin DOMAIN rows[table[elevation.num]] THEN Undefined
  ELSE rows[table[elevation.num]][moisture]

\* The zone build() looks up for cell ix
CellZone(table, rows, t, ix) ==
  LET cell == At(t.cells, ix)
  IN getTerrainZone(table, rows,
       ElevationTier(cell.elevation, t.minElev, t.maxElev), cell.moisture)

\* getTerrainZone(...).color throws when the call has thrown or returned undefined
ColorThrows(table, rows, t, ix) ==
  CellZone(table, rows, t, ix) \in {TypeError, Undefined}

RawColor(table, rows, t, ix) ==
  IF ColorThrows(table, rows, t, ix) THEN 0 ELSE CellZone(table, rows, t, ix).color

\* cell.shape = cellShape, with the elevation written back as well.
TagCellAndLift(cell, g) ==
  [cell EXCEPT !.shape = g.cellShape, !.elevation = g.yE \div 2]

\* cell.shape = cellShape
TagCell(cell, g) == [cell EXCEPT !.shape = g.cellShape]

\* What one pass of the cells.forEach callback hands to the vertices.
CellVertices(table, rows, t, width, ix) ==
  LET g == Classify(t.cells, width, ix)
  IN [x |-> ix % width, z |-> ix \div width,
      cellShape |-> g.cellShape, cellTurns |-> g.cellTurns,
      yA |-> g.yA, yB |-> g.yB, yC |-> g.yC, yD |-> g.yD, yE |-> g.yE,
      uvOffset |-> g.uvOffset,
      rawColor |-> RawColor(table, rows, t, ix)]

\* The index of the first cell whose callback throws, or the number of cells
FirstThrow(table, rows, t) ==
  LET n == Len(t.cells)
  IN CHOOSE ix \in 0..n :
       /\ ix = n \/ ColorThrows(table, rows, t, ix)
       /\ \A before \in 0..(ix - 1) : ~ColorThrows(table, rows, t, before)

(* The vertices and the buffers.  Lengths are kept exact in these units:
   x and z in halves of a cell, heights in half tiers before the division by
   Math.SQRT2, uv coordinates in quarters of the texture, colour components
   in 255ths.  A face normal is kept as the cross product s of
   computeFaceNormal taken in these units, before the division by its
   length: the normal points along (s[1] / SQRT2, s[2], s[3] / SQRT2). *)

\* cos and sin of turns * -90 degrees
TurnCos(turns) == <<1, 0, 0 - 1, 0>>[(turns % 4) + 1]
TurnSin(turns) == <<0, 0 - 1, 0, 1>>[(turns % 4) + 1]

rotateAroundByTurns(v, turns, vAround) ==
  LET cos == TurnCos(turns)
      sin == TurnSin(turns)
      v_t == <<v[1] - vAround[1], v[2] - vAround[2]>>
      v_r == <<cos * v_t[1] - sin * v_t[2], cos * v_t[2] + sin * v_t[1]>>
  IN <<v_r[1] + vAround[1], v_r[2] + vAround[2]>>

computeFaceNormal(p0, p1, p2) ==
  LET a == <<p1[1] - p0[1], p1[2] - p0[2], p1[3] - p0[3]>>
      b == <<p2[1] - p0[1], p2[2] - p0[2], p2[3] - p0[3]>>
  IN <<a[2] * b[3] - a[3] * b[2],
       a[3] * b[1] - a[1] * b[3],
       a[1] * b[2] - a[2] * b[1]>>

\* The red, green and blue bytes of rawColor
Color(rawColor) ==
  <<(rawColor \div 65536) % 256, (rawColor \div 256) % 256, rawColor % 256>>

\* vertA .. vertE of a cell, c being what the callback computed for it
UvCentre(c) == <<c.uvOffset[1] + 1, c.uvOffset[2] + 1>>
VertA(c) ==
  [pos |-> <<2 * c.x - 1, c.yA, 2 * c.z - 1>>, norm |-> <<0, 0, 0>>,
   color |-> Color(c.rawColor),
   uv |-> rotateAroundByTurns(<<c.uvOffset[1], c.uvOffset[2] + 2>>,
                              c.cellTurns, UvCentre(c))]
VertB(c) ==
  [pos |-> <<2 * c.x + 1, c.yB, 2 * c.z - 1>>, norm |-> <<0, 0, 0>>,
   color |-> Color(c.rawColor),
   uv |-> rotateAroundByTurns(<<c.uvOffset[1] + 2, c.uvOffset[2] + 2>>,
                              c.cellTurns, UvCentre(c))]
VertC(c) ==
  [pos |-> <<2 * c.x + 1, c.yC, 2 * c.z + 1>>, norm |-> <<0, 0, 0>>,
   color |-> Color(c.rawColor),
   uv |-> rotateAroundByTurns(<<c.uvOffset[1] + 2, c.uvOffset[2]>>,
                              c.cellTurns, UvCentre(c))]
VertD(c) ==
  [pos |-> <<2 * c.x - 1, c.yD, 2 * c.z + 1>>, norm |-> <<0, 0, 0>>,
   color |-> Color(c.rawColor),
   uv |-> rotateAroundByTurns(<<c.uvOffset[1], c.uvOffset[2]>>,
                              c.cellTurns, UvCentre(c))]
VertE(c) ==
  [pos |-> <<2 * c.x, c.yE, 2 * c.z>>, norm |-> <<0, 0, 0>>,
   color |-> Color(c.rawColor), uv |-> UvCentre(c)]

\* One triangle: its three vertices with the face normal
Triangle(v0, v1, v2) ==
  LET fn == computeFaceNormal(v0.pos, v1.pos, v2.pos)
  IN <<[v0 EXCEPT !.norm = fn], [v1 EXCEPT !.norm = fn], [v2 EXCEPT !.norm = fn]>>

\* The triangles of a cell without the last one.
CellTrianglesThree(c) ==
  Triangle(VertE(c), VertB(c), VertA(c)) \o Triangle(VertE(c), VertC(c), VertB(c))
    \o Triangle(VertE(c), VertD(c), VertC(c))

\* The vertices one pass of the callback pushes: EBA, ECB, EDC, EAD
CellTriangles(c) ==
  Triangle(VertE(c), VertB(c), VertA(c)) \o Triangle(VertE(c), VertC(c), VertB(c))
    \o Triangle(VertE(c), VertD(c), VertC(c)) \o Triangle(VertE(c), VertA(c), VertD(c))

\* push(...part) for each part of parts, in order
RECURSIVE PushAll(_)
PushAll(parts) ==
  IF parts = <<>> THEN <<>> ELSE Head(parts) \o PushAll(Tail(parts))

\* The array `vertices` of build() after the loop over the cells, cs being
\* what the callback computed for each cell
VertexList(cs) == PushAll([k \in 1..Len(cs) |-> CellTriangles(cs[k])])

\* geom.translate(dx, dy, dz) on a position buffer
Translate(positions, dx, dy, dz) ==
  [k \in 1..Len(positions) |-> positions[k] + <<dx, dy, dz>>[((k - 1) % 3) + 1]]

\* The attributes of the geometry build() returns
GeomAttributes(cs) ==
  LET vs == VertexList(cs)
  IN [position |-> Translate(PushAll([k \in 1..Len(vs) |-> vs[k].pos]),
                             0 - 64, 0, 0 - 64),
      normal |-> PushAll([k \in 1..Len(vs) |-> vs[k].norm]),
      uv |-> PushAll([k \in 1..Len(vs) |-> vs[k].uv]),
      color |-> PushAll([k \in 1..Len(vs) |-> vs[k].color])]

NoTerrain == [cells |-> <<>>, minElev |-> 0, maxElev |-> 0]
NoGenerator == [width |-> 0, area |-> 0, amplitude |-> 0]
\* width is what the caller passes to generate() and build(), ctorWidth what
\* it passed to new TerrainGenerator (0: nothing)
NoCaller == [width |-> 0, ctorWidth |-> 0]

VARIABLES
  pc,                        \* where the program is
  zoneIx,                    \* number of keys of TerrainZones already stored
  terrainByElevAndMoisture,  \* the outer array: tier -> reference to a row
  heap,                      \* the row objects: reference -> row
  tg,                        \* the TerrainGenerator object
  mNoise,                    \* numerator of the moisture noise of this run
  i,                         \* loop index of generate()
  cellInfo,                  \* generate(): the cells produced so far
  elevRange,                 \* generate(): running <<min, max>>
  terrain,                   \* App.terrain: the result of generate()
  vertices,                  \* build(): what was emitted, one entry per cell
  error,                     \* message of the exception thrown, "" if none
  caller,                    \* the width the calling code holds and passes on
  geoms                      \* the geometries build() has returned, in order

vars == <<pc, zoneIx, terrainByElevAndMoisture, heap, tg, mNoise, i, cellInfo,
          elevRange, terrain, vertices, error, caller, geoms>>

Init ==
  /\ pc = "load"
  /\ zoneIx = 0
  /\ terrainByElevAndMoisture = FilledTable
  /\ heap = FilledHeap
  /\ tg = NoGenerator
  /\ mNoise = 0
  /\ i = 0
  /\ cellInfo = <<>>
  /\ elevRange = <<0, 0>>
  /\ terrain = NoTerrain
  /\ vertices = <<>>
  /\ error = ""
  /\ caller = NoCaller
  /\ geoms = <<>>

\* One iteration of for (let key in TerrainZones)
LoadZone ==
  /\ pc = "load"
  /\ zoneIx < Len(TerrainZones)
  /\ heap' = StoreZone(terrainByElevAndMoisture, heap, TerrainZones[zoneIx + 1])
  /\ zoneIx' = zoneIx + 1
  /\ UNCHANGED <<pc, terrainByElevAndMoisture, tg, mNoise, i, cellInfo,
                 elevRange, terrain, vertices, error, caller, geoms>>

\* The module is loaded; the calling code constructs a generator for its
\* width.
Construct(width, amplitude, noise) ==
  /\ pc = "load"
  /\ zoneIx = Len(TerrainZones)
  /\ tg' = NewTerrainGenerator(width, amplitude)
  /\ caller' = [width |-> width, ctorWidth |-> width]
  /\ mNoise' = noise
  /\ pc' = "constructed"
  /\ UNCHANGED <<zoneIx, terrainByElevAndMoisture, heap, i, cellInfo,
                 elevRange, terrain, vertices, error, geoms>>

\* new App(width): the application keeps the width and constructs its
\* generator without arguments.
NewApp(width, noise) ==
  /\ pc = "load"
  /\ zoneIx = Len(TerrainZones)
  /\ tg' = NewTerrainGenerator(0, 0)
  /\ caller' = [width |-> width, ctorWidth |-> 0]
  /\ mNoise' = noise
  /\ pc' = "constructed"
  /\ UNCHANGED <<zoneIx, terrainByElevAndMoisture, heap, i, cellInfo,
                 elevRange, terrain, vertices, error, geoms>>

\* generate() up to the loop
GenerateBegin ==
  /\ pc = "constructed"
  /\ cellInfo' = GenerateEntry.cellInfo
  /\ elevRange' = GenerateEntry.elevRange
  /\ i' = 0
  /\ pc' = "generating"
  /\ UNCHANGED <<zoneIx, terrainByElevAndMoisture, heap, tg, mNoise,
                 terrain, vertices, error, caller, geoms>>

\* One iteration of the loop of generate(); raw is the truncated noise value.
GenerateCell(raw) ==
  /\ pc = "generating"
  /\ i < tg.area
  /\ raw \in RawElevs(tg.amplitude)
  /\ LET st == GenerateStep([cellInfo |-> cellInfo, elevRange |-> elevRange,
                             thrown |-> FALSE], tg.width, raw, mNoise)
     IN IF st.thrown
          THEN /\ pc' = "failed"
               /\ error' = "(TerrainGenerator.generate) The range around a cell is too great."
               /\ UNCHANGED <<i, cellInfo, elevRange>>
          ELSE /\ elevRange' = st.elevRange
               /\ cellInfo' = st.cellInfo
               /\ i' = i + 1
               /\ UNCHANGED <<pc, error>>
  /\ UNCHANGED <<zoneIx, terrainByElevAndMoisture, heap, tg, mNoise, terrain,
                 vertices, caller, geoms>>

\* The loop is over: generate() returns the terrain.
GenerateReturn ==
  /\ pc = "generating"
  /\ i = tg.area
  /\ terrain' = [cells |-> cellInfo, minElev |-> elevRange[1], maxElev |-> elevRange[2]]
  /\ pc' = "generated"
  /\ UNCHANGED <<zoneIx, terrainByElevAndMoisture, heap, tg, mNoise, i,
                 cellInfo, elevRange, vertices, error, caller, geoms>>

\* generate(width) as one step over a constant elevation noise: the argument
\* is not a parameter of the method, the loop runs over this.area cells.
Generate(raw) ==
  /\ pc = "constructed"
  /\ raw \in RawElevs(tg.amplitude)
  /\ \E st \in {GenerateSteps(GenerateEntry, tg.width, raw, mNoise, tg.area)} :
        /\ cellInfo' = st.cellInfo
        /\ elevRange' = st.elevRange
        /\ i' = Len(st.cellInfo)
        /\ IF st.thrown
             THEN /\ pc' = "failed"
                  /\ error' = "(TerrainGenerator.generate) The range around a cell is too great."
                  /\ UNCHANGED terrain
             ELSE /\ pc' = "generated"
                  /\ terrain' = [cells |-> st.cellInfo, minElev |-> st.elevRange[1],
                                 maxElev |-> st.elevRange[2]]
                  /\ UNCHANGED error
  /\ UNCHANGED <<zoneIx, terrainByElevAndMoisture, heap, tg, mNoise, vertices,
                 caller, geoms>>

\* The check of the arguments without the check of cells.
ArgumentErrorWidthOnly(width, cells) ==
  IF width = 0
    THEN "(TerrainMeshBuilder.build) The parameter 'width' must be supplied"
    ELSE ""

\* The message of the error build() throws for its arguments, "" if it
\* throws none; 0 stands for a width that is missing or not a number
ArgumentError(width, cells) ==
  IF width = 0
    THEN "(TerrainMeshBuilder.build) The parameter 'width' must be supplied"
  ELSE IF Len(cells) # width * width
    THEN "(TerrainMeshBuilder.build) The parameter 'cellInfo' must be supplied"
  ELSE ""

\* build(width, terrain), called by App.initTerrainMesh.  The callback tags
\* each cell with its shape before it resolves the colour, so the cell at
\* which it throws is tagged and the ones after it are not.
Build(width) ==
  /\ pc \in {"generated", "built"}
  /\ Len(geoms) < MaxBuilds
  /\ IF ArgumentError(width, terrain.cells) # ""
       THEN /\ pc' = "failed"
            /\ error' = ArgumentError(width, terrain.cells)
            /\ UNCHANGED <<terrain, vertices, geoms>>
     ELSE \E n \in {Len(terrain.cells)},
             stop \in {FirstThrow(terrainByElevAndMoisture, heap, terrain)} :
             /\ terrain' = [terrain EXCEPT !.cells =
                  [k \in 1..n |->
                     IF k - 1 <= stop
                       THEN TagCell(terrain.cells[k], Classify(terrain.cells, width, k - 1))
                       ELSE terrain.cells[k]]]
             /\ IF stop < n
                  THEN /\ pc' = "failed"
                       /\ error' = "TypeError"
                       /\ UNCHANGED <<vertices, geoms>>
                  ELSE /\ pc' = "built"
                       /\ vertices' = [k \in 1..n |->
                            CellVertices(terrainByElevAndMoisture, heap, terrain, width, k - 1)]
                       /\ geoms' = Append(geoms, vertices')
                       /\ UNCHANGED error
  /\ UNCHANGED <<zoneIx, terrainByElevAndMoisture, heap, tg, mNoise, i,
                 cellInfo, elevRange, caller>>

\* The widths the calling code passes to build(): none, one that does not
\* fit the cells, and its own
BuildWidths(width) == {0, width - 1, width}

Next ==
  \/ LoadZone
  \/ \E c \in Configs, noise \in MoistNoises : Construct(c[1], c[2], noise)
  \/ GenerateBegin
  \/ \E raw \in -MaxSize..MaxSize : GenerateCell(raw)
  \/ GenerateReturn
  \/ \E width \in BuildWidths(caller.width) : Build(width)

Spec == Init /\ [][Next]_vars

(* The calling code as the application writes it, and calling code that hands
   the generator a width that is not a positive number.  generate() is taken
   as one step, over a noise that has the same value at every cell. *)
WIDTH == 64
AppWidths == (1..MaxAppWidth) \cup {WIDTH}
\* 0 stands for every argument that is falsy or not a number
MalformedWidths == {0 - w : w \in 0..MaxNegWidth}

\* App.initTerrainMesh: build(this.width, this.terrain)
InitTerrainMesh ==
  /\ caller.width >= 0
  /\ Build(caller.width)

NextArgs ==
  \/ LoadZone
  \/ \E width \in AppWidths, noise \in MoistNoises : NewApp(width, noise)
  \/ \E width \in MalformedWidths, noise \in MoistNoises : Construct(width, 0, noise)
  \/ \E raw \in RawElevs(DEFAULT_AMPLITUDE) : Generate(raw)
  \/ InitTerrainMesh

SpecArgs == Init /\ [][NextArgs]_vars

(* generate() over every value k / NoiseDen of the moisture noise, on the
   grids of width 1 and 2. *)
AllNoises == (0 - NoiseDen)..NoiseDen
NoiseConfigs == {c \in Configs : c[1] <= 2 /\ c[2] <= 2}

NextNoise ==
  \/ LoadZone
  \/ \E c \in NoiseConfigs, noise \in AllNoises : Construct(c[1], c[2], noise)
  \/ GenerateBegin
  \/ \E raw \in -1..1 : GenerateCell(raw)
  \/ GenerateReturn

SpecNoise == Init /\ [][NextNoise]_vars
(* ===================== properties of the program ======================= *)
\* The grid seen through coordinates, independently of the index arithmetic
\* of the program.
InGrid(width, x, z) == x \in 0..(width - 1) /\ z \in 0..(width - 1)
ElevAt(cells, width, x, z) == cells[z * width + x + 1].elevation
\* Elevation of the neighbour of cell ix at offset d, the cell's own
\* elevation when that position is outside the grid
NbElev(cells, width, ix, d) ==
  LET x == ix % width
      z == ix \div width
  IN IF InGrid(width, x + d[1], z + d[2])
       THEN ElevAt(cells, width, x + d[1], z + d[2])
       ELSE cells[ix + 1].elevation
\* left, top, right, bottom
SideDelta == << <<-1, 0>>, <<0, -1>>, <<1, 0>>, <<0, 1>> >>
\* upper left, upper right, lower right, lower left
CornerDelta == << <<-1, -1>>, <<1, -1>>, <<1, 1>>, <<-1, 1>> >>
\* left, up/left, up, up/right
PriorDelta == << <<-1, 0>>, <<-1, -1>>, <<0, -1>>, <<1, -1>> >>
AllDelta == {d \in (-1..1) \X (-1..1) : d # <<0, 0>>}
HigherSideSet(cells, width, ix) ==
  {s \in 0..3 : NbElev(cells, width, ix, SideDelta[s + 1]) > cells[ix + 1].elevation}
HigherCornerSet(cells, width, ix) ==
  {k \in 0..3 : NbElev(cells, width, ix, CornerDelta[k + 1]) > cells[ix + 1].elevation}
\* The corners (0 A, 1 B, 2 C, 3 D) that touch a side
SideCorners == << {0, 3}, {0, 1}, {1, 2}, {2, 3} >>
CornerHeight(v, k) == <<v.yA, v.yB, v.yC, v.yD>>[k + 1]
Abs(n) == IF n < 0 THEN 0 - n ELSE n
CellIxs(cells) == 0..(Len(cells) - 1)

\* generate() has returned a field
Completed == terrain # NoTerrain
\* build() has returned a mesh
Built == pc = "built"
\* the import of TerrainZone.js has finished
Loaded == zoneIx = Len(TerrainZones)

\* C1: once generate() has returned, every cell differs by at most 2 from
\* each of its neighbours visited before it (left, up/left, up, up/right).
C1_PriorNeighboursWithinTwo ==
  Completed =>
    \A ix \in CellIxs(terrain.cells) : \A q \in 1..4 :
      LET x == ix % tg.width
          z == ix \div tg.width
          d == PriorDelta[q]
      IN InGrid(tg.width, x + d[1], z + d[2]) =>
           Abs(At(terrain.cells, ix).elevation
               - ElevAt(terrain.cells, tg.width, x + d[1], z + d[2])) <= 2

\* A returned field in which a cell with all four prior neighbours had its raw
\* value capped: it sits exactly one level under its highest prior neighbour
\* although the amplitude allows lower values.
C1_Witness ==
  /\ Completed
  /\ tg.width >= 3
  /\ \E ix \in CellIxs(terrain.cells) :
       /\ Len(Neighbors(terrain.cells, tg.width, ix)) = 4
       /\ \E q \in 1..4 :
            NbElev(terrain.cells, tg.width, ix, PriorDelta[q])
              = At(terrain.cells, ix).elevation + 1

\* The range of the neighbours that generate() gathers for cell ix
RangeAround(cells, width, ix) ==
  LET neighbors == Neighbors(cells, width, ix)
  IN IF Len(neighbors) = 0 THEN 0
     ELSE NeighborRange(neighbors)[2] - NeighborRange(neighbors)[1]

\* C2: generate() never throws 'The range around a cell is too great': at
\* every cell visited so far, and at the cell about to be visited, the
\* neighbours already produced span at most 2 levels.
C2_NeverRangeError ==
  /\ error # "(TerrainGenerator.generate) The range around a cell is too great."
  /\ pc = "generating" =>
       \A ix \in 0..Len(cellInfo) :
         ix < tg.area => RangeAround(cellInfo, tg.width, ix) <= 2

\* A cell was produced although its neighbours span exactly 2 levels.
C2_Witness ==
  /\ pc = "generating"
  /\ \E ix \in CellIxs(cellInfo) : RangeAround(cellInfo, tg.width, ix) = 2

\* C3: in a returned field any two 8-adjacent cells differ by at most 1, so
\* each neighbour that build() reads as higher is exactly one level higher.
C3_AdjacentWithinOne ==
  Completed =>
    \A ix \in CellIxs(terrain.cells) :
      /\ \A d \in AllDelta :
           Abs(NbElev(terrain.cells, tg.width, ix, d)
               - At(terrain.cells, ix).elevation) <= 1
      /\ LET h == ReadHeights(terrain.cells, tg.width, ix)
         IN \A y \in {h.yA, h.yB, h.yC, h.yD, h.yLeft, h.yTop, h.yRight, h.yBot} :
              y > h.yE => y = h.yE + 1

\* A returned field with an inner cell that has a higher later neighbour
\* (right, or in the row below) and a lower one.
C3_Witness ==
  /\ Completed
  /\ \E ix \in CellIxs(terrain.cells) :
       /\ \E d \in {<<1, 0>>, <<-1, 1>>, <<0, 1>>, <<1, 1>>} :
            NbElev(terrain.cells, tg.width, ix, d) = At(terrain.cells, ix).elevation + 1
       /\ \E d \in AllDelta :
            NbElev(terrain.cells, tg.width, ix, d) = At(terrain.cells, ix).elevation - 1

\* C4: once the table is built, getTerrainZone(t, m) is the declared zone of
\* tier t whose moisture range contains m.
C4_LookupReturnsOwner ==
  Loaded =>
    \A t \in Tiers, m \in MoistureLevels :
      LET zone == getTerrainZone(terrainByElevAndMoisture, heap, Num(t), m)
      IN /\ zone \notin {Undefined, TypeError}
         /\ zone.elevation = t
         /\ zone.moistureMin <= m
         /\ m <= zone.moistureMax

\* The declared zones that own the pair (t, m)
Owners(t, m) ==
  {k \in 1..Len(TerrainZones) :
     /\ TerrainZones[k].elevation = t
     /\ TerrainZones[k].moistureMin <= m
     /\ m <= TerrainZones[k].moistureMax}

\* C5: the 15 declared zones are exhaustive and do not overlap: every pair
\* (tier, moisture) has exactly one owner among them, and once the table is
\* built no lookup in range finds an empty slot.
C5_ZonesPartition ==
  /\ Len(TerrainZones) = 15
  /\ \A t \in Tiers, m \in MoistureLevels : Cardinality(Owners(t, m)) = 1
  /\ Loaded =>
       \A t \in Tiers, m \in MoistureLevels :
         getTerrainZone(terrainByElevAndMoisture, heap, Num(t), m)
           \notin {Undefined, TypeError}

\* The table is built from all the zones and its last slot is filled.
C5_Witness ==
  /\ Loaded
  /\ getTerrainZone(terrainByElevAndMoisture, heap, Num(3), 5) \in
       {TerrainZones[k] : k \in 1..Len(TerrainZones)}

\* C6: a cell with no strictly higher neighbour among its 8 is tagged FLAT
\* and its four corners and its centre are emitted at the cell's elevation.
C6_FlatCell ==
  \A ix \in CellIxs(terrain.cells) :
    (/\ pc \in {"built", "failed"}
     /\ HigherSideSet(terrain.cells, tg.width, ix) = {}
     /\ HigherCornerSet(terrain.cells, tg.width, ix) = {}) =>
      /\ At(terrain.cells, ix).shape = CELL_SHAPE_FLAT
      /\ Built =>
           LET v == At(vertices, ix)
           IN /\ v.cellShape = CELL_SHAPE_FLAT
              /\ v.yE = 2 * At(terrain.cells, ix).elevation
              /\ \A k \in 0..3 : CornerHeight(v, k) = v.yE

\* A mesh with a flat inner cell that has a lower corner neighbour.
C6_Witness ==
  /\ Built
  /\ \E ix \in CellIxs(terrain.cells) :
       /\ HigherSideSet(terrain.cells, tg.width, ix) = {}
       /\ HigherCornerSet(terrain.cells, tg.width, ix) = {}
       /\ \E k \in 1..4 :
            NbElev(terrain.cells, tg.width, ix, CornerDelta[k])
              < At(terrain.cells, ix).elevation
       /\ At(vertices, ix).cellShape = CELL_SHAPE_FLAT

\* C7: a cell with exactly one strictly higher side is tagged SLOPE, the two
\* corners on that side are emitted at the side's elevation, the centre half
\* a tier above the cell, and the quarter turns are 1, 0, 3, 2 for left, top,
\* right, bottom.
C7_SlopeCell ==
  Built =>
    \A ix \in CellIxs(terrain.cells) : \A s \in 0..3 :
      HigherSideSet(terrain.cells, tg.width, ix) = {s} =>
        LET v == At(vertices, ix)
        IN /\ At(terrain.cells, ix).shape = CELL_SHAPE_SLOPE
           /\ v.cellShape = CELL_SHAPE_SLOPE
           /\ \A k \in SideCorners[s + 1] :
                CornerHeight(v, k) = 2 * NbElev(terrain.cells, tg.width, ix, SideDelta[s + 1])
           /\ v.yE = 2 * At(terrain.cells, ix).elevation + 1
           /\ v.cellTurns = <<1, 0, 3, 2>>[s + 1]

\* A mesh with a slope whose higher side is the bottom one and which also has
\* a higher corner neighbour on the opposite (upper) side.
C7_Witness ==
  /\ Built
  /\ \E ix \in CellIxs(terrain.cells) :
       /\ HigherSideSet(terrain.cells, tg.width, ix) = {3}
       /\ HigherCornerSet(terrain.cells, tg.width, ix) \cap {0, 1} # {}
       /\ At(vertices, ix).cellTurns = 2

\* C8: a cell with no higher side and exactly one higher corner neighbour is
\* tagged CORNER_UP; that corner is emitted at the neighbour's elevation, the
\* other three corners and the centre at the cell's elevation, and the
\* quarter turns are the negated corner index.
C8_CornerUpCell ==
  Built =>
    \A ix \in CellIxs(terrain.cells) : \A c \in 0..3 :
      (/\ HigherSideSet(terrain.cells, tg.width, ix) = {}
       /\ HigherCornerSet(terrain.cells, tg.width, ix) = {c}) =>
        LET v == At(vertices, ix)
        IN /\ At(terrain.cells, ix).shape = CELL_SHAPE_CORNER_UP
           /\ v.cellShape = CELL_SHAPE_CORNER_UP
           /\ CornerHeight(v, c) = 2 * NbElev(terrain.cells, tg.width, ix, CornerDelta[c + 1])
           /\ \A k \in 0..3 \ {c} : CornerHeight(v, k) = 2 * At(terrain.cells, ix).elevation
           /\ v.yE = 2 * At(terrain.cells, ix).elevation
           /\ v.cellTurns = 0 - c

\* A mesh with a cell whose only higher neighbour is the lower-left corner.
C8_Witness ==
  /\ Built
  /\ \E ix \in CellIxs(terrain.cells) :
       /\ HigherSideSet(terrain.cells, tg.width, ix) = {}
       /\ HigherCornerSet(terrain.cells, tg.width, ix) = {3}
       /\ At(vertices, ix).cellTurns = -3

\* The pairs of sides that meet in a corner, with the quarter turns (modulo
\* 4) that build() gives each: four different values.
AdjacentPairs == { {0, 1}, {1, 2}, {2, 3}, {3, 0} }
PairTurns(pair) ==
  IF pair = {0, 1} THEN 0 ELSE IF pair = {1, 2} THEN 3
  ELSE IF pair = {2, 3} THEN 2 ELSE 1

\* C9: a cell with exactly two higher sides that meet in a corner is tagged
\* CORNER_DOWN; the three corners on those sides and the centre are emitted
\* at the maximum of the side elevations, and each of the four pairs has its
\* own quarter-turn count modulo 4.
C9_CornerDownCell ==
  Built =>
    \A ix \in CellIxs(terrain.cells) :
      LET sides == HigherSideSet(terrain.cells, tg.width, ix)
          v == At(vertices, ix)
          high == CHOOSE e \in {NbElev(terrain.cells, tg.width, ix, SideDelta[s + 1]) : s \in sides} :
                    \A s \in sides : NbElev(terrain.cells, tg.width, ix, SideDelta[s + 1]) <= e
      IN sides \in AdjacentPairs =>
           /\ At(terrain.cells, ix).shape = CELL_SHAPE_CORNER_DOWN
           /\ v.cellShape = CELL_SHAPE_CORNER_DOWN
           /\ \A k \in UNION {SideCorners[s + 1] : s \in sides} : CornerHeight(v, k) = 2 * high
           /\ v.yE = 2 * high
           /\ v.cellTurns % 4 = PairTurns(sides)
           /\ \A p, q \in AdjacentPairs : p # q => PairTurns(p) # PairTurns(q)

\* A mesh in which two cells are corner-down for different pairs of sides,
\* one of them the pair top + right (a negative quarter-turn count).
C9_Witness ==
  /\ Built
  /\ \E ix, jx \in CellIxs(terrain.cells) :
       /\ HigherSideSet(terrain.cells, tg.width, ix) = {1, 2}
       /\ HigherSideSet(terrain.cells, tg.width, jx) \in AdjacentPairs \ {{1, 2}}
       /\ At(vertices, ix).cellTurns = -1

\* C10: in a returned field no cell has three or more strictly higher sides.
C10_AtMostTwoHigherSides ==
  Completed =>
    \A ix \in CellIxs(terrain.cells) :
      Cardinality(HigherSideSet(terrain.cells, tg.width, ix)) <= 2

\* The cells the classification of build() has no branch for
Unclassifiable(cells, width) ==
  {ix \in CellIxs(cells) : Cardinality(HigherSideSet(cells, width, ix)) >= 3}

\* C11: when the terrain has a cell with three or four strictly higher sides,
\* build() aborts with a fatal error: it returns no mesh and emits no
\* geometry for such a cell.
C11_UnclassifiableAborts ==
  Unclassifiable(terrain.cells, tg.width) # {} =>
    /\ geoms = <<>>
    /\ vertices = <<>>
    /\ pc # "built"

\* The cell whose square holds the point (px, pz) of the untranslated mesh
InCellSquare(width, ix, px, pz) ==
  /\ Abs(px - 2 * (ix % width)) <= 1
  /\ Abs(pz - 2 * (ix \div width)) <= 1

\* C12: every mesh that build() returned for a field of w * w cells has
\* 12 * w * w vertices, the 12 of each cell consecutive and the cells in
\* raster order; its positions, normals and colors buffers hold 36 * w * w
\* numbers each and its uvs buffer 24 * w * w.
C12_BufferLengths ==
  \A b \in 1..Len(geoms) :
    LET w == tg.width
        vs == VertexList(geoms[b])
        a == GeomAttributes(geoms[b])
    IN /\ Len(terrain.cells) = w * w
       /\ Len(vs) = 12 * w * w
       /\ \A k \in 1..Len(vs) :
            InCellSquare(w, (k - 1) \div 12, vs[k].pos[1], vs[k].pos[3])
       /\ Len(a.position) = 36 * w * w
       /\ Len(a.normal) = 36 * w * w
       /\ Len(a.color) = 36 * w * w
       /\ Len(a.uv) = 24 * w * w

\* A mesh of a field of width 3 with a cell that is not flat: 108 vertices.
C12_Witness ==
  /\ Built
  /\ tg.width = 3
  /\ Len(geoms) > 0
  /\ Len(VertexList(geoms[1])) = 108
  /\ \E ix \in CellIxs(terrain.cells) : At(geoms[1], ix).cellShape # CELL_SHAPE_FLAT

\* C13: two calls of build() in a row on the same terrain return the same
\* positions, normals, uvs and colors buffers: what the first call wrote on
\* the cells (their shape tags) has no influence on the second.
C13_BuildTwiceSame ==
  Len(geoms) >= 2 =>
    LET first == GeomAttributes(geoms[1])
        second == GeomAttributes(geoms[2])
    IN /\ first.position = second.position
       /\ first.normal = second.normal
       /\ first.uv = second.uv
       /\ first.color = second.color

\* build() has returned twice on a terrain in which the first call tagged a
\* cell as a slope and another as a corner.
C13_Witness ==
  /\ Len(geoms) = 2
  /\ \E ix, jx \in CellIxs(terrain.cells) :
       /\ At(geoms[1], ix).cellShape = CELL_SHAPE_SLOPE
       /\ At(terrain.cells, ix).shape = CELL_SHAPE_SLOPE
       /\ At(geoms[1], jx).cellShape = CELL_SHAPE_CORNER_DOWN
       /\ At(terrain.cells, jx).shape = CELL_SHAPE_CORNER_DOWN

\* The two errors with which build() rejects its arguments
ConfigErrors ==
  {"(TerrainMeshBuilder.build) The parameter 'width' must be supplied",
   "(TerrainMeshBuilder.build) The parameter 'cellInfo' must be supplied"}

\* build(2, terrain) has been entered with proper arguments on a terrain of
\* 4 cells that all have elevation 0 and moisture 0
FlatFieldBuild ==
  /\ Completed
  /\ tg.width = 2
  /\ Len(terrain.cells) = 4
  /\ \A ix \in CellIxs(terrain.cells) :
       At(terrain.cells, ix).elevation = 0 /\ At(terrain.cells, ix).moisture = 0
  /\ terrain.minElev = 0 /\ terrain.maxElev = 0
  /\ pc \in {"built", "failed"}
  /\ error \notin ConfigErrors

\* C14: on a terrain of width 2 whose 4 cells all have elevation 0 and
\* moisture 0, build() completes: the 4 cells are tagged FLAT, the mesh has
\* 48 vertices, every normal points up and every colour is the colour of the
\* zone declared for tier 0 and moisture 0.
C14_FlatFieldMesh ==
  FlatFieldBuild =>
    /\ pc = "built"
    /\ \A ix \in CellIxs(terrain.cells) : At(terrain.cells, ix).shape = CELL_SHAPE_FLAT
    /\ LET vs == VertexList(vertices)
       IN /\ Len(vs) = 48
          /\ \A k \in 1..Len(vs) :
               /\ vs[k].norm[1] = 0 /\ vs[k].norm[2] > 0 /\ vs[k].norm[3] = 0
               /\ \E z \in Owners(0, 0) : vs[k].color = Color(TerrainZones[z].color)

\* The x and the z indices that the cells carry
XIndices(cells) == {cells[k].xIndex : k \in 1..Len(cells)}
ZIndices(cells) == {cells[k].zIndex : k \in 1..Len(cells)}

\* C15: when the application made for a positive width w has generated its
\* terrain (generator constructed without arguments, then generate(w)), the
\* terrain has exactly w * w cells and their grid coordinates cover 0..w-1 in
\* x and in z.
C15_AppFieldSize ==
  (Completed /\ caller.ctorWidth = 0 /\ caller.width > 0) =>
    /\ Len(terrain.cells) = caller.width * caller.width
    /\ XIndices(terrain.cells) = 0..(caller.width - 1)
    /\ ZIndices(terrain.cells) = 0..(caller.width - 1)

\* A generator was constructed with a width that is not a positive number
MalformedGiven == pc # "load" /\ caller.ctorWidth = caller.width /\ caller.width <= 0

C17_RejectsBeforeWork ==
  [][\A width \in BuildWidths(caller.width) :
       (/\ Build(width)
        /\ width = 0 \/ Len(terrain.cells) # width * width) =>
         /\ pc' = "failed"
         /\ error' \in ConfigErrors
         /\ terrain' = terrain
         /\ vertices' = vertices
         /\ geoms' = geoms]_vars

\* build() has rejected cells that do not fit its width, on a terrain that
\* an earlier call had tagged: the tags and the mesh of that call are there.
C17_Witness ==
  /\ pc = "failed"
  /\ error = "(TerrainMeshBuilder.build) The parameter 'cellInfo' must be supplied"
  /\ Len(geoms) = 1
  /\ vertices = geoms[1]
  /\ \E ix \in CellIxs(terrain.cells) : At(terrain.cells, ix).shape # CELL_SHAPE_FLAT

\* C18: in a returned field every elevation lies between minElev and maxElev
\* and each of the two bounds is the elevation of some cell.
C18_ElevBoundsAttained ==
  Completed =>
    /\ \A ix \in CellIxs(terrain.cells) :
         /\ terrain.minElev <= At(terrain.cells, ix).elevation
         /\ At(terrain.cells, ix).elevation <= terrain.maxElev
    /\ \E ix \in CellIxs(terrain.cells) : At(terrain.cells, ix).elevation = terrain.minElev
    /\ \E ix \in CellIxs(terrain.cells) : At(terrain.cells, ix).elevation = terrain.maxElev

\* A returned field of three levels whose first cell is at neither bound, the
\* lowest cell coming before the highest.
C18_Witness ==
  /\ Completed
  /\ terrain.maxElev = terrain.minElev + 2
  /\ At(terrain.cells, 0).elevation = terrain.minElev + 1
  /\ \E ix, jx \in CellIxs(terrain.cells) :
       /\ ix < jx
       /\ At(terrain.cells, ix).elevation = terrain.minElev
       /\ At(terrain.cells, jx).elevation = terrain.maxElev

\* C19: for every moisture noise k / NoiseDen in [-1, 1] the moisture stored
\* on a cell is an integer m of 0..5; it is the integer with
\* m <= 3 * (noise + 1) < m + 1 for a noise below 1, and 5 for the noise 1,
\* which gives 6 before the cap.
C19_MoistureRange ==
  \A ix \in CellIxs(cellInfo) :
    LET m == At(cellInfo, ix).moisture
    IN /\ m \in 0..5
       /\ mNoise < NoiseDen =>
            /\ NoiseDen * m <= 3 * (mNoise + NoiseDen)
            /\ 3 * (mNoise + NoiseDen) < NoiseDen * (m + 1)
       /\ mNoise = NoiseDen => m = 5

\* A returned field generated over the noise 1: its cells carry moisture 5.
C19_Witness ==
  /\ Completed
  /\ mNoise = NoiseDen
  /\ Len(terrain.cells) = 4
  /\ \A ix \in CellIxs(terrain.cells) : At(terrain.cells, ix).moisture = 5

\* The eight elevations build() reads around a cell, by offset
ReadAt(h, d) ==
  IF d = <<-1, -1>> THEN h.yA ELSE IF d = <<0, -1>> THEN h.yTop
  ELSE IF d = <<1, -1>> THEN h.yB ELSE IF d = <<1, 0>> THEN h.yRight
  ELSE IF d = <<1, 1>> THEN h.yC ELSE IF d = <<0, 1>> THEN h.yBot
  ELSE IF d = <<-1, 1>> THEN h.yD ELSE h.yLeft

\* C20: for every cell (x, z), each of the 8 elevations build() reads is that
\* of the cell at (x+dx, z+dz) when this position is in the grid and the
\* cell's own otherwise, so no read wraps to the other end of a row and every
\* neighbour counted as higher is a cell of the grid.
C20_NeighbourReads ==
  Completed =>
    \A ix \in CellIxs(terrain.cells) :
      LET h == ReadHeights(terrain.cells, tg.width, ix)
          x == ix % tg.width
          z == ix \div tg.width
      IN /\ h.yE = At(terrain.cells, ix).elevation
         /\ \A d \in AllDelta :
              /\ ReadAt(h, d) = (IF InGrid(tg.width, x + d[1], z + d[2])
                                   THEN ElevAt(terrain.cells, tg.width, x + d[1], z + d[2])
                                   ELSE h.yE)
              /\ ReadAt(h, d) > h.yE => InGrid(tg.width, x + d[1], z + d[2])

\* A returned field of width 3 with a cell in the last column, below the
\* first row, that is lower than the first cell of its row: a read wrapping
\* around the row would count that cell as a higher upper right neighbour.
C20_Witness ==
  /\ Completed
  /\ tg.width = 3
  /\ \E z \in 1..2 :
       /\ ElevAt(terrain.cells, 3, 0, z) > ElevAt(terrain.cells, 3, 2, z)
       /\ ~Includes(HigherCorners(ReadHeights(terrain.cells, 3, z * 3 + 2)), 1)

\* The x (c = 1) or z (c = 3) coordinates in a position buffer
Coordinates(positions, c) ==
  {positions[k] : k \in {j \in 1..Len(positions) : (j - 1) % 3 = c - 1}}
SetMin(S) == CHOOSE m \in S : \A other \in S : m <= other
SetMax(S) == CHOOSE m \in S : \A other \in S : other <= m

\* C21: the positions of every mesh build() returns are centred on the
\* origin: the lowest and the highest x are opposite numbers, and so are the
\* lowest and the highest z.
C21_CentredOnOrigin ==
  \A b \in 1..Len(geoms) :
    LET position == GeomAttributes(geoms[b]).position
        xs == Coordinates(position, 1)
        zs == Coordinates(position, 3)
    IN /\ SetMin(xs) + SetMax(xs) = 0
       /\ SetMin(zs) + SetMax(zs) = 0

\* The elevations of the neighbours of the cell ix that generate() has
\* visited before it, found by their coordinates
PriorElevs(cells, width, ix) ==
  {ElevAt(cells, width, (ix % width) + PriorDelta[q][1], (ix \div width) + PriorDelta[q][2]) :
     q \in {p \in 1..4 : InGrid(width, (ix % width) + PriorDelta[p][1],
                                (ix \div width) + PriorDelta[p][2])}}

\* C22 (as stated): when generate() stores a cell that has a visited
\* neighbour, a raw elevation below minN + 1 is stored as minN + 1 and a raw
\* elevation above maxN - 1 is stored as maxN - 1.
C22_RaisedToMinLoweredToMax ==
  [][\A raw \in (0 - MaxSize)..MaxSize :
       (/\ GenerateCell(raw)
        /\ pc' = "generating"
        /\ PriorElevs(cellInfo, tg.width, i) # {}) =>
         LET minN == SetMin(PriorElevs(cellInfo, tg.width, i))
             maxN == SetMax(PriorElevs(cellInfo, tg.width, i))
             y == cellInfo'[i + 1].elevation
         IN /\ raw < minN + 1 => y = minN + 1
            /\ raw > maxN - 1 => y = maxN - 1]_vars

\* C22 (amended): when generate() stores a cell that has a visited
\* neighbour, a raw elevation above minN + 1 is stored as minN + 1, a raw
\* elevation below maxN - 1 is stored as maxN - 1, and any other is stored
\* as it is.
C22_LoweredToMinRaisedToMax ==
  [][\A raw \in (0 - MaxSize)..MaxSize :
       (/\ GenerateCell(raw)
        /\ pc' = "generating"
        /\ PriorElevs(cellInfo, tg.width, i) # {}) =>
         LET minN == SetMin(PriorElevs(cellInfo, tg.width, i))
             maxN == SetMax(PriorElevs(cellInfo, tg.width, i))
             y == cellInfo'[i + 1].elevation
         IN /\ raw > minN + 1 => y = minN + 1
            /\ raw < maxN - 1 => y = maxN - 1
            /\ (raw <= minN + 1 /\ raw >= maxN - 1) => y = raw]_vars

\* generate() is at work; one stored cell sits exactly one level above its
\* lowest visited neighbour although the amplitude has higher raw values, and
\* another sits exactly one level below its highest visited neighbour
\* although the amplitude has lower raw values.
C22_Witness ==
  /\ pc = "generating"
  /\ \E ix, jx \in CellIxs(cellInfo) :
       /\ PriorElevs(cellInfo, tg.width, ix) # {}
       /\ At(cellInfo, ix).elevation = SetMin(PriorElevs(cellInfo, tg.width, ix)) + 1
       /\ At(cellInfo, ix).elevation < tg.amplitude \div 2
       /\ PriorElevs(cellInfo, tg.width, jx) # {}
       /\ At(cellInfo, jx).elevation = SetMax(PriorElevs(cellInfo, tg.width, jx)) - 1
       /\ At(cellInfo, jx).elevation > 0 - (tg.amplitude \div 2)

\* The grid point, in halves of a cell, at which a cell emits its corner k
\* (0 A, 1 B, 2 C, 3 D)
CornerPoint(v, k) ==
  <<2 * v.x + <<0 - 1, 1, 1, 0 - 1>>[k + 1], 2 * v.z + <<0 - 1, 0 - 1, 1, 1>>[k + 1]>>

\* C23: a mesh built from a field whose 8-adjacent cells differ by at most 1
\* has no vertical crack: the cells that share a grid corner point emit the
\* same height for it, and no cell emits a corner below its own elevation.
C23_NoCrack ==
  (/\ Built
   /\ \A ix \in CellIxs(terrain.cells) : \A d \in AllDelta :
        Abs(NbElev(terrain.cells, tg.width, ix, d) - At(terrain.cells, ix).elevation) <= 1) =>
    /\ \A ix, jx \in CellIxs(terrain.cells) : \A k, l \in 0..3 :
         CornerPoint(At(vertices, ix), k) = CornerPoint(At(vertices, jx), l) =>
           CornerHeight(At(vertices, ix), k) = CornerHeight(At(vertices, jx), l)
    /\ \A ix \in CellIxs(terrain.cells) : \A k \in 0..3 :
         CornerHeight(At(vertices, ix), k) >= 2 * At(terrain.cells, ix).elevation
====
